---------------------------- MODULE Spec2Model ----------------------------
(***************************************************************************)
(* Model of nobel_analysis.py: a linear batch script                       *)
(*   load -> map columns -> normalize -> validate -> preprocess ->         *)
(*   questions 1..5 -> final summary.                                      *)
(*                                                                         *)
(* A table (DataFrame) is a record [n, col, dtype]: n rows, col maps each  *)
(* column name to the sequence of its n cells, dtype maps it to the pandas *)
(* dtype of the column ("object" or "float64"; only the .str accessor      *)
(* looks at it).  A string is a sequence of one-character strings, so that *)
(* lower(), strip(), concatenation and the regular expression of           *)
(* str.contains are computed rather than assumed.  A missing string cell   *)
(* is NaN, a missing year is NaNYear.                                      *)
(***************************************************************************)
EXTENDS Integers, Sequences, FiniteSets, TLC

VARIABLES raw, nobel, pc, error, missing, assigned,
          top_gender, top_country, usa_winners, max_decade_usa, usa_ratio,
          max_female_dict, prop, prop_df,
          first_woman_name, first_woman_category,
          repeat_list, repeat_report, charts

vars == <<raw, nobel, pc, error, missing, assigned,
          top_gender, top_country, usa_winners, max_decade_usa, usa_ratio,
          max_female_dict, prop, prop_df,
          first_woman_name, first_woman_category,
          repeat_list, repeat_report, charts>>

-----------------------------------------------------------------------------
(* Bounds of the explored inputs.                                          *)

MaxRows == 3
NameRows == 2

-----------------------------------------------------------------------------
(* Missing values and strings.                                             *)

\* the missing value of a string cell (None / NaN in an object column)
NaN == <<"NaN">>

\* the missing value of a year cell (NaN in a numeric column)
NaNYear == -1

\* the columns holding numbers; every other column holds strings
NumericColumns == {"year", "year_award", "awardYear", "Year", "prizeYear", "decade"}

\* the missing value of a cell of column c
Null(c) == IF c \in NumericColumns THEN NaNYear ELSE NaN

\* Series.isna() on one cell of column c
isna(c, v) == v = Null(c)

UpperCase == <<"A","B","C","D","E","F","G","H","I","J","K","L","M",
               "N","O","P","Q","R","S","T","U","V","W","X","Y","Z">>
LowerCase == <<"a","b","c","d","e","f","g","h","i","j","k","l","m",
               "n","o","p","q","r","s","t","u","v","w","x","y","z">>

\* str.lower() on one character
LowerChar(c) ==
    IF \E i \in 1..Len(UpperCase) : UpperCase[i] = c
    THEN LowerCase[CHOOSE i \in 1..Len(UpperCase) : UpperCase[i] = c]
    ELSE c

\* Series.str.lower() on one cell: a missing cell stays missing
lower(s) == IF s = NaN THEN NaN ELSE [i \in 1..Len(s) |-> LowerChar(s[i])]

IsSpace(c) == c \in {" ", "\t", "\n"}

\* Series.str.strip() on one cell: leading and trailing whitespace removed
strip(s) ==
    IF s = NaN THEN NaN
    ELSE LET keep == {i \in 1..Len(s) : ~IsSpace(s[i])}
         IN  IF keep = {} THEN <<>>
             ELSE LET lo == CHOOSE i \in keep : \A j \in keep : i <= j
                      hi == CHOOSE i \in keep : \A j \in keep : j <= i
                  IN  SubSeq(s, lo, hi)

\* Series.fillna(value) on one cell of a string column
fillna(v, value) == IF v = NaN THEN value ELSE v

\* the order of characters (code points) among the characters in use
Ascii == <<"\t", "\n", " ", ".">> \o UpperCase \o LowerCase

Ord(c) == CHOOSE i \in 1..Len(Ascii) : Ascii[i] = c

\* s < t for two strings, as Python and pandas order them
StrLess(s, t) ==
    \E k \in 1..(Len(t)) :
        /\ k <= Len(s) + 1
        /\ \A j \in 1..(k - 1) : s[j] = t[j]
        /\ (k = Len(s) + 1 \/ (k <= Len(s) /\ Ord(s[k]) < Ord(t[k])))

-----------------------------------------------------------------------------
(* Tables.                                                                 *)

Columns(df) == DOMAIN df.col

Rows(df) == 1..df.n

\* Series.isna().all() of column c
AllNa(df, c) == \A i \in Rows(df) : isna(c, df.col[c][i])

\* the dtype read_csv gives a string column: an entirely empty column of a
\* non-empty file is parsed as float64, anything else as object
ReadCsvDtype(cells) ==
    IF Len(cells) > 0 /\ \A i \in 1..Len(cells) : cells[i] = NaN
    THEN "float64" ELSE "object"

\* pd.read_csv: the table of the file whose columns are cols
read_csv(cols) ==
    [n     |-> Len(cols[CHOOSE c \in DOMAIN cols : TRUE]),
     col   |-> cols,
     dtype |-> [c \in DOMAIN cols |->
                  IF c \in NumericColumns THEN "float64"
                  ELSE ReadCsvDtype(cols[c])]]

\* the .str accessor raises AttributeError on a column that is not of
\* object dtype
StrAccessorRaises(df, c) == df.dtype[c] # "object"

-----------------------------------------------------------------------------
(* map_columns                                                             *)

essential == <<"year", "full_name", "sex", "birth_country", "category">>

Essential == {essential[i] : i \in 1..Len(essential)}

col_map ==
    [year          |-> <<"year", "year_award", "awardYear", "Year", "prizeYear">>,
     full_name     |-> <<"full_name", "name", "laureate_name", "Full Name",
                         "firstname", "surname">>,
     sex           |-> <<"sex", "gender", "Sex", "Gender">>,
     birth_country |-> <<"birth_country", "bornCountry", "country",
                         "birthCountry", "Birth Country", "birth_countryNow">>,
     category      |-> <<"category", "prize_category", "Category", "discipline">>]

\* the positions of the variants of std that are columns of df
Found(df, std) == {i \in 1..Len(col_map[std]) : col_map[std][i] \in Columns(df)}

\* the first variant of std that is a column of df (the for ... break)
FirstVariant(df, std) ==
    col_map[std][CHOOSE i \in Found(df, std) : \A j \in Found(df, std) : i <= j]

map_columns(df) ==
    [n     |-> df.n,
     col   |-> [c \in Columns(df) \cup Essential |->
                  IF c \in Essential
                  THEN IF Found(df, c) = {}
                       THEN [i \in 1..df.n |-> Null(c)]
                       ELSE df.col[FirstVariant(df, c)]
                  ELSE df.col[c]],
     dtype |-> [c \in Columns(df) \cup Essential |->
                  IF c \in Essential
                  THEN IF Found(df, c) = {}
                       THEN "object"
                       ELSE df.dtype[FirstVariant(df, c)]
                  ELSE df.dtype[c]]]

\* df[c] = cells: column c added or replaced; a column of strings is of dtype
\* object, a column of numbers of dtype float64
SetColumn(df, c, cells) ==
    [n     |-> df.n,
     col   |-> [x \in Columns(df) \cup {c} |-> IF x = c THEN cells ELSE df.col[x]],
     dtype |-> [x \in Columns(df) \cup {c} |->
                  IF x # c THEN df.dtype[x]
                  ELSE IF c \in NumericColumns THEN "float64" ELSE "object"]]

-----------------------------------------------------------------------------
(* Normalization: lines 54-63.                                             *)

unknown == <<"u","n","k","n","o","w","n">>

\* nobel['sex'].str.lower().fillna('unknown')
StandardizeSex(df) ==
    SetColumn(df, "sex", [i \in Rows(df) |-> fillna(lower(df.col["sex"][i]), unknown)])

\* a.fillna('') + ' ' + b.fillna(''), row by row
Combine(df, a, b) ==
    [i \in Rows(df) |-> fillna(df.col[a][i], <<>>) \o <<" ">> \o fillna(df.col[b][i], <<>>)]

\* the if / elif taken only when no variant populated full_name
CombineNamesUnlessMapped(df) ==
    IF ~AllNa(df, "full_name") THEN df
    ELSE IF "givenName" \in Columns(df) /\ "familyName" \in Columns(df)
    THEN SetColumn(df, "full_name", Combine(df, "givenName", "familyName"))
    ELSE IF "firstname" \in Columns(df) /\ "surname" \in Columns(df)
    THEN SetColumn(df, "full_name", Combine(df, "firstname", "surname"))
    ELSE df

\* the if / elif that builds full_name from two name columns
CombineNames(df) ==
    IF "givenName" \in Columns(df) /\ "familyName" \in Columns(df)
    THEN SetColumn(df, "full_name", Combine(df, "givenName", "familyName"))
    ELSE IF "firstname" \in Columns(df) /\ "surname" \in Columns(df)
    THEN SetColumn(df, "full_name", Combine(df, "firstname", "surname"))
    ELSE df

\* nobel['full_name'].str.strip()
StripNames(df) ==
    SetColumn(df, "full_name", [i \in Rows(df) |-> strip(df.col["full_name"][i])])

-----------------------------------------------------------------------------
(* The essential-column check: lines 65-69.                                *)

Missing(df) ==
    LET Bad(c) == c \notin Columns(df) \/ AllNa(df, c)
    IN  SelectSeq(essential, Bad)

-----------------------------------------------------------------------------
(* Preprocessing: lines 73-75.                                             *)

\* (year // 10) * 10; a missing year gives a missing decade
Decade(y) == IF y = NaNYear THEN NaNYear ELSE (y \div 10) * 10

Unknown == <<"U","n","k","n","o","w","n">>

Preprocess(df) ==
    LET d == SetColumn(df, "decade", [i \in Rows(df) |-> Decade(df.col["year"][i])])
    IN  SetColumn(d, "birth_country",
                  [i \in Rows(df) |-> fillna(df.col["birth_country"][i], Unknown)])

-----------------------------------------------------------------------------
(* Helpers shared by the questions.                                        *)

\* the non-missing values of column c among the rows rs
Values(df, rs, c) == {df.col[c][i] : i \in {j \in rs : ~isna(c, df.col[c][j])}}

\* Series.value_counts() / groupby(c).size(): missing keys are dropped
value_counts(df, rs, c) ==
    [v \in Values(df, rs, c) |-> Cardinality({i \in rs : df.col[c][i] = v})]

\* the values idxmax() may return on value_counts(): a most frequent value;
\* the order value_counts gives equally frequent values is not specified
Modes(counts) == {v \in DOMAIN counts : \A w \in DOMAIN counts : counts[w] <= counts[v]}

\* Series.unique(): the distinct cells in order of first occurrence, a
\* missing cell included
RECURSIVE UniqueFrom(_, _, _)
UniqueFrom(cells, i, acc) ==
    IF i > Len(cells) THEN acc
    ELSE IF \E k \in 1..Len(acc) : acc[k] = cells[i]
         THEN UniqueFrom(cells, i + 1, acc)
         ELSE UniqueFrom(cells, i + 1, Append(acc, cells[i]))

unique(cells) == UniqueFrom(cells, 1, <<>>)

\* the cells of column c at the rows rs, in table order
RECURSIVE Take(_, _, _, _)
Take(df, c, rs, i) ==
    IF i > df.n THEN <<>>
    ELSE (IF i \in rs THEN <<df.col[c][i]>> ELSE <<>>) \o Take(df, c, rs, i + 1)

\* a quotient count / total, kept exact as <<count, total>>; <<0, 0>> is the
\* NaN of a division whose operand is absent after index alignment
NaNRatio == <<0, 0>>
ZeroRatio == <<0, 1>>

\* a / b on two Series: aligned on the union of the indexes
Divide(a, b) ==
    [k \in DOMAIN a \cup DOMAIN b |->
        IF k \in DOMAIN a /\ k \in DOMAIN b THEN <<a[k], b[k]>> ELSE NaNRatio]

\* Series.fillna(0) on a Series of quotients
fillna0(r) == [k \in DOMAIN r |-> IF r[k] = NaNRatio THEN ZeroRatio ELSE r[k]]

\* x < y on quotients
RatioLess(x, y) == x[1] * y[2] < y[1] * x[2]

\* the keys holding the maximum of a Series of quotients
ArgMax(r) == {k \in DOMAIN r : \A j \in DOMAIN r : ~RatioLess(r[k], r[j])}

-----------------------------------------------------------------------------
(* Question 2: lines 98-129.                                               *)

\* the pattern 'United States|USA|America|U.S.A.' as its alternatives
UsaPattern ==
    << <<"U","n","i","t","e","d"," ","S","t","a","t","e","s">>,
       <<"U","S","A">>,
       <<"A","m","e","r","i","c","a">>,
       <<"U",".","S",".","A",".">> >>

\* one pattern character against one character, regex=True, case=False:
\* an unescaped dot matches any character but a line break
RegexCharMatches(p, c) ==
    IF p = "." THEN c # "\n" ELSE LowerChar(p) = LowerChar(c)

\* the alternative alt matches s at position i
MatchAt(alt, s, i) ==
    /\ i + Len(alt) - 1 <= Len(s)
    /\ \A k \in 1..Len(alt) : RegexCharMatches(alt[k], s[i + k - 1])

\* Series.str.contains(pattern, case=False, na=False) on one cell
contains(pattern, s) ==
    /\ s # NaN
    /\ \E a \in 1..Len(pattern) : \E i \in 1..Len(s) : MatchAt(pattern[a], s, i)

\* the rows of usa_winners
usa_mask(df) == {i \in Rows(df) : contains(UsaPattern, df.col["birth_country"][i])}

\* usa_ratio after fillna(0)
UsaRatio(df) ==
    LET usa_per_decade   == value_counts(df, usa_mask(df), "decade")
        total_per_decade == value_counts(df, Rows(df), "decade")
    IN  fillna0(Divide(usa_per_decade, total_per_decade))

\* usa_ratio.idxmax(): the first label, in the sorted index, of the maximum
IdxMaxDecade(r) == CHOOSE d \in ArgMax(r) : \A e \in ArgMax(r) : d <= e

-----------------------------------------------------------------------------
(* Question 3: lines 131-162.                                              *)

female == <<"f","e","m","a","l","e">>

\* the rows of female_winners
female_winners(df) == {i \in Rows(df) : df.col["sex"][i] = female}

\* groupby(['decade', 'category']).size() over the rows rs: rows with a
\* missing key are dropped
group_size(df, rs) ==
    LET ok   == {i \in rs : df.col["decade"][i] # NaNYear /\ df.col["category"][i] # NaN}
        Key(i) == <<df.col["decade"][i], df.col["category"][i]>>
    IN  [k \in {Key(i) : i \in ok} |-> Cardinality({i \in ok : Key(i) = k})]

\* prop without its fillna(0)
PropUnfilled(df) ==
    Divide(group_size(df, female_winners(df)), group_size(df, Rows(df)))

\* prop = (female_group / total_group).fillna(0)
Prop(df) ==
    fillna0(Divide(group_size(df, female_winners(df)), group_size(df, Rows(df))))

\* the order of the (decade, category) labels in the sorted MultiIndex
PairLess(k, j) == k[1] < j[1] \/ (k[1] = j[1] /\ StrLess(k[2], j[2]))

\* prop.idxmax(): the first label of the maximum
IdxMaxPair(r) == CHOOSE k \in ArgMax(r) : \A j \in ArgMax(r) : k = j \/ PairLess(k, j)

\* a set of decades as the sorted index of a frame
RECURSIVE SortedDecades(_)
SortedDecades(S) ==
    IF S = {} THEN <<>>
    ELSE LET m == CHOOSE d \in S : \A e \in S : d <= e
         IN  <<m>> \o SortedDecades(S \ {m})

\* a set of strings as the sorted columns of a frame
RECURSIVE SortedStrings(_)
SortedStrings(S) ==
    IF S = {} THEN <<>>
    ELSE LET m == CHOOSE s \in S : \A t \in S : s = t \/ StrLess(s, t)
         IN  <<m>> \o SortedStrings(S \ {m})

\* the (row, column) labels of the cells of a frame
FrameKeys(index, columns) ==
    {<<index[i], columns[j]>> : i \in 1..Len(index), j \in 1..Len(columns)}

\* prop.unstack().fillna(0): one row per decade and one column per category
\* of the index of prop; a pair that is not in prop is NaN, then 0
PropDf(r) ==
    LET index   == SortedDecades({k[1] : k \in DOMAIN r})
        columns == SortedStrings({k[2] : k \in DOMAIN r})
    IN  [index   |-> index,
         columns |-> columns,
         data    |-> [k \in FrameKeys(index, columns) |->
                        IF k \in DOMAIN r THEN r[k] ELSE ZeroRatio]]

\* pd.DataFrame(columns=category.unique(), index=decade.unique()).fillna(0)
EmptyPropDf(df) ==
    LET index   == unique(df.col["decade"])
        columns == unique(df.col["category"])
    IN  [index   |-> index,
         columns |-> columns,
         data    |-> [k \in FrameKeys(index, columns) |-> ZeroRatio]]

-----------------------------------------------------------------------------
(* Question 4: lines 164-172.                                              *)

\* row j sorts strictly before row i in sort_values('year'): missing years
\* are placed last
YearBefore(df, j, i) ==
    /\ df.col["year"][j] # NaNYear
    /\ (df.col["year"][i] = NaNYear \/ df.col["year"][j] < df.col["year"][i])

\* the first rows of a sort by descending year
LatestRows(df) ==
    {i \in female_winners(df) : \A j \in female_winners(df) : ~YearBefore(df, i, j)}

\* the rows female_winners.sort_values('year').iloc[0] may be: sort_values
\* sorts with kind='quicksort', which is documented as not stable (numpy's
\* introsort and its vectorized sorts reorder equal keys), so any row that
\* no other row sorts before may come first
FirstRows(df) ==
    {i \in female_winners(df) : \A j \in female_winners(df) : ~YearBefore(df, j, i)}

-----------------------------------------------------------------------------
(* Question 5: lines 174-183.                                              *)

\* repeat_counts = nobel['full_name'].value_counts()
repeat_counts(df) == value_counts(df, Rows(df), "full_name")

\* the orders in which repeat_counts[repeat_counts > 1].index.tolist() may
\* list the names: by descending count, equal counts in any order
RepeatLists(df) ==
    LET rc == repeat_counts(df)
        S  == {v \in DOMAIN rc : rc[v] > 1}
        n  == Cardinality(S)
    IN  {l \in [1..n -> S] :
            /\ \A i, j \in 1..n : i # j => l[i] # l[j]
            /\ \A i, j \in 1..n : i < j => rc[l[i]] >= rc[l[j]]}

\* a < b on two years held as floats: every comparison with NaN is false
Less(a, b) == a # NaNYear /\ b # NaNYear /\ a < b

Reverse(a) == [i \in 1..Len(a) |-> a[Len(a) + 1 - i]]

\* list.sort's count_run: the end of the run that starts the list
RECURSIVE RunEnd(_, _, _)
RunEnd(a, k, descending) ==
    IF k + 1 <= Len(a)
       /\ (IF descending THEN Less(a[k + 1], a[k]) ELSE ~Less(a[k + 1], a[k]))
    THEN RunEnd(a, k + 1, descending)
    ELSE k

\* list.sort's binarysort: where pivot goes among the sorted a[l+1..r]
RECURSIVE BinarySearch(_, _, _, _)
BinarySearch(a, pivot, l, r) ==
    IF l < r
    THEN LET p == l + ((r - l) \div 2)
         IN  IF Less(pivot, a[p + 1])
             THEN BinarySearch(a, pivot, l, p)
             ELSE BinarySearch(a, pivot, p + 1, r)
    ELSE l

RECURSIVE BinarySort(_, _)
BinarySort(a, start) ==
    IF start > Len(a) THEN a
    ELSE LET l == BinarySearch(a, a[start], 0, start - 1)
         IN  BinarySort(SubSeq(a, 1, l) \o <<a[start]>> \o SubSeq(a, l + 1, start - 1)
                          \o SubSeq(a, start + 1, Len(a)),
                        start + 1)

\* sorted(list) of a short list: the first run, reversed when it descends,
\* then binary insertion of the rest
sorted(a) ==
    IF Len(a) <= 1 THEN a
    ELSE LET descending == Less(a[2], a[1])
             k == RunEnd(a, 2, descending)
             run == IF descending THEN Reverse(SubSeq(a, 1, k)) ELSE SubSeq(a, 1, k)
         IN  BinarySort(run \o SubSeq(a, k + 1, Len(a)), k + 1)

\* the rows of nobel[nobel['full_name'] == name]
RowsOf(df, name) == {i \in Rows(df) : df.col["full_name"][i] = name}

\* what the loop body computes and prints for one name
RepeatLine(df, name) ==
    [name  |-> name,
     wins  |-> repeat_counts(df)[name],
     cats  |-> unique(Take(df, "category", RowsOf(df, name), 1)),
     years |-> sorted(Take(df, "year", RowsOf(df, name), 1))]

\* ', '.join(cats) raises TypeError when an item is not a string
JoinRaises(cats) == \E k \in 1..Len(cats) : cats[k] = NaN

\* the positions of the names of l whose line cannot be printed
Raising(df, l) == {i \in 1..Len(l) : JoinRaises(RepeatLine(df, l[i]).cats)}

\* the lines the loop prints: all of them, or those before the first name
\* whose line raises
RepeatReport(df, l) ==
    LET last == IF Raising(df, l) = {} THEN Len(l)
                ELSE (CHOOSE i \in Raising(df, l) : \A j \in Raising(df, l) : i <= j) - 1
    IN  [i \in 1..last |-> RepeatLine(df, l[i])]

-----------------------------------------------------------------------------
(* The input files explored.                                               *)

Physics == <<"P","h","y","s","i","c","s">>
Chemistry == <<"C","h","e","m","i","s","t","r","y">>
France == <<"F","r","a","n","c","e">>
USA == <<"U","S","A">>
Female == <<"F","e","m","a","l","e">>
Male == <<"M","a","l","e">>

Years == {1990, 2000, NaNYear}
Categories == {Physics, Chemistry}
Names == {<<"A">>, <<"B">>}

\* birth countries: with and without the literal substrings, in either case
Countries ==
    {USA, France, NaN,
     <<"u",".","s",".","a",".">>,
     <<"U","n","i","t","e","d"," ","S","t","a","t","e","s">>,
     <<"L","a","t","i","n"," ","A","m","e","r","i","c","a">>,
     <<"R","u","s","s","i","a">>,
     <<"R","u","s","s","i","a","n"," ","E","m","p","i","r","e">>}

\* all columns of n cells drawn from D
Cells(n, D) == [1..n -> D]

\* the column of n cells that all hold v
Const(n, v) == [i \in 1..n |-> v]

\* a different one-letter name in every row
RowNames(n) == [i \in 1..n |-> <<UpperCase[i]>>]

\* files with the canonical header whose rows differ in year, sex and
\* category
FemaleFiles ==
    UNION {[year          : Cells(n, Years),
            full_name     : {RowNames(n)},
            sex           : Cells(n, {Female, Male}),
            birth_country : {Const(n, France)},
            category      : Cells(n, Categories)] : n \in 0..MaxRows}

\* files with the canonical header whose rows differ in year and birth
\* country
UsaFiles ==
    UNION {[year          : Cells(n, Years),
            full_name     : {RowNames(n)},
            sex           : {Const(n, Male)},
            birth_country : Cells(n, Countries),
            category      : {Const(n, Physics)}] : n \in 0..MaxRows}

\* files with the canonical header whose rows differ in name, year and
\* category, each possibly missing
RepeatFiles ==
    UNION {[year          : Cells(n, Years),
            full_name     : Cells(n, Names \cup {NaN}),
            sex           : {Const(n, Male)},
            birth_country : {Const(n, USA)},
            category      : Cells(n, Categories \cup {NaN})] : n \in 0..MaxRows}

\* files whose header names the laureate in separate columns, alone or
\* beside a direct variant of full_name
NameFiles ==
    UNION {   [awardYear : {Const(n, 1990)}, gender : {Const(n, Female)},
               birthCountry : {Const(n, France)}, category : {Const(n, Physics)},
               givenName  : Cells(n, {NaN, <<"M">>, <<" ","M">>}),
               familyName : Cells(n, {NaN, <<"C">>, <<"C"," ">>})]
        \cup [year : {Const(n, 1990)}, gender : {Const(n, Female)},
               bornCountry : {Const(n, France)}, category : {Const(n, Physics)},
               firstname : Cells(n, {NaN, <<"M">>, <<" ","M">>}),
               surname   : Cells(n, {NaN, <<"C">>, <<"C"," ">>})]
        \cup [year : {Const(n, 1990)}, sex : {Const(n, Female)},
               country : {Const(n, France)}, category : {Const(n, Physics)},
               name       : Cells(n, {NaN, <<"A">>}),
               givenName  : Cells(n, {NaN, <<"M">>, <<" ","M">>}),
               familyName : Cells(n, {NaN, <<"C">>, <<"C"," ">>})]
        \cup [year : {Const(n, 1990)}, sex : {Const(n, Female)},
               birth_country : {Const(n, France)}, category : {Const(n, Physics)},
               full_name : Cells(n, {NaN, <<" ","A"," ">>}),
               firstname : Cells(n, {NaN, <<"M">>}),
               surname   : Cells(n, {NaN, <<"C">>})]
        \cup [year : {Const(n, 1990)}, sex : {Const(n, Female)},
               birth_country : {Const(n, France)}, category : {Const(n, Physics)},
               name      : Cells(n, {NaN, <<"A">>, <<"A"," ">>}),
               givenName : Cells(n, {NaN, <<"M">>})]
        : n \in 0..NameRows}

\* files whose header lacks every variant of one essential field, and files
\* with the canonical header, each cell filled or empty
SparseFiles ==
    UNION {   [full_name : Cells(n, {NaN, <<"A">>}), sex : Cells(n, {NaN, Male}),
               birth_country : Cells(n, {NaN, USA}), category : Cells(n, {NaN, Physics})]
        \cup [year : Cells(n, {NaNYear, 1990}), gender : Cells(n, {NaN, Male}),
               birth_country : Cells(n, {NaN, USA}), category : Cells(n, {NaN, Physics})]
        \cup [year : Cells(n, {NaNYear, 1990}), name : Cells(n, {NaN, <<"A">>}),
               birth_country : Cells(n, {NaN, USA}), category : Cells(n, {NaN, Physics})]
        \cup [year : Cells(n, {NaNYear, 1990}), full_name : Cells(n, {NaN, <<"A">>}),
               sex : Cells(n, {NaN, Male}), category : Cells(n, {NaN, Physics})]
        \cup [year : Cells(n, {NaNYear, 1990}), full_name : Cells(n, {NaN, <<"A">>}),
               sex : Cells(n, {NaN, Male}), country : Cells(n, {NaN, USA})]
        \cup [year : Cells(n, {NaNYear, 1990}), full_name : Cells(n, {NaN, <<"A">>}),
               sex : Cells(n, {NaN, Male}), birth_country : Cells(n, {NaN, USA}),
               category : Cells(n, {NaN, Physics})]
        : n \in 0..NameRows}

-----------------------------------------------------------------------------
(* The script as a state machine.                                          *)

NoError == [type |-> "none", line |-> 0]

\* the names of the final summary
Answers == {"top_gender", "top_country", "max_decade_usa", "max_female_dict",
            "first_woman_name", "first_woman_category", "repeat_list"}

EmptyFrame == [index |-> <<>>, columns |-> <<>>, data |-> <<>>]

\* the state after line 24 for the file whose columns are cols
Loaded(cols) ==
    /\ raw = read_csv(cols)
    /\ nobel = raw
    /\ pc = "map_columns"
    /\ error = NoError
    /\ missing = <<>>
    /\ assigned = {}
    /\ top_gender = <<>>
    /\ top_country = <<>>
    /\ usa_winners = {}
    /\ max_decade_usa = <<>>
    /\ usa_ratio = <<>>
    /\ max_female_dict = <<>>
    /\ prop = <<>>
    /\ prop_df = EmptyFrame
    /\ first_woman_name = <<>>
    /\ first_woman_category = <<>>
    /\ repeat_list = <<>>
    /\ repeat_report = <<>>
    /\ charts = {}

Init == \E cols \in FemaleFiles \cup UsaFiles \cup RepeatFiles \cup NameFiles \cup SparseFiles :
            Loaded(cols)

InitFemale == \E cols \in FemaleFiles : Loaded(cols)
InitUsa == \E cols \in UsaFiles : Loaded(cols)
InitRepeat == \E cols \in RepeatFiles : Loaded(cols)
InitColumns == \E cols \in NameFiles \cup SparseFiles : Loaded(cols)

answers == <<top_gender, top_country, usa_winners, max_decade_usa, usa_ratio, max_female_dict,
             prop, prop_df, first_woman_name, first_woman_category,
             repeat_list, repeat_report>>

\* line 52
MapColumnsStep ==
    /\ pc = "map_columns"
    /\ nobel' = map_columns(nobel)
    /\ pc' = "gender"
    /\ UNCHANGED <<raw, error, missing, assigned, answers, charts>>

\* lines 54-56
GenderStep ==
    /\ pc = "gender"
    /\ IF StrAccessorRaises(nobel, "sex")
       THEN /\ error' = [type |-> "AttributeError", line |-> 56]
            /\ pc' = "aborted"
            /\ UNCHANGED nobel
       ELSE /\ nobel' = StandardizeSex(nobel)
            /\ pc' = "name"
            /\ UNCHANGED error
    /\ UNCHANGED <<raw, missing, assigned, answers, charts>>

\* lines 58-63
NameStep ==
    /\ pc = "name"
    /\ LET combined == CombineNames(nobel)
       IN  IF StrAccessorRaises(combined, "full_name")
           THEN /\ nobel' = combined
                /\ error' = [type |-> "AttributeError", line |-> 63]
                /\ pc' = "aborted"
           ELSE /\ nobel' = StripNames(combined)
                /\ pc' = "check"
                /\ UNCHANGED error
    /\ UNCHANGED <<raw, missing, assigned, answers, charts>>

\* lines 65-71
CheckStep ==
    /\ pc = "check"
    /\ missing' = Missing(nobel)
    /\ IF missing' # <<>>
       THEN /\ error' = [type |-> "ValueError", line |-> 69]
            /\ pc' = "aborted"
       ELSE /\ pc' = "preprocess"
            /\ UNCHANGED error
    /\ UNCHANGED <<raw, nobel, assigned, answers, charts>>

\* lines 73-79
PreprocessStep ==
    /\ pc = "preprocess"
    /\ nobel' = Preprocess(nobel)
    /\ pc' = "question1"
    /\ UNCHANGED <<raw, error, missing, assigned, answers, charts>>

\* lines 81-96.  Here and below the plotting calls are taken to return:
\* what they draw is no part of the state, only the file they save is.
Question1 ==
    /\ pc = "question1"
    /\ top_gender' \in Modes(value_counts(nobel, Rows(nobel), "sex"))
    /\ top_country' \in Modes(value_counts(nobel, Rows(nobel), "birth_country"))
    /\ assigned' = assigned \cup {"top_gender", "top_country"}
    /\ charts' = charts \cup {"gender_distribution.png"}
    /\ pc' = "question2"
    /\ UNCHANGED <<raw, nobel, error, missing, usa_winners, max_decade_usa,
                   usa_ratio, max_female_dict, prop, prop_df, first_woman_name,
                   first_woman_category, repeat_list, repeat_report>>

\* lines 98-129
Question2 ==
    /\ pc = "question2"
    /\ usa_winners' = usa_mask(nobel)
    /\ IF usa_winners' = {}
       THEN /\ max_decade_usa' = <<>>
            /\ UNCHANGED <<usa_ratio, charts>>
       ELSE /\ usa_ratio' = UsaRatio(nobel)
            /\ max_decade_usa' = <<IdxMaxDecade(usa_ratio')>>
            /\ charts' = charts \cup {"usa_ratio_by_decade.png"}
    /\ assigned' = assigned \cup {"max_decade_usa"}
    /\ pc' = "question3"
    /\ UNCHANGED <<raw, nobel, error, missing, top_gender, top_country,
                   max_female_dict, prop, prop_df, first_woman_name,
                   first_woman_category, repeat_list, repeat_report>>

\* the sentinel {1900: "Unknown"} and a found {decade: category}
UnknownDict == [decade |-> 1900, category |-> Unknown]

\* lines 131-162
Question3 ==
    /\ pc = "question3"
    /\ IF female_winners(nobel) = {}
       THEN /\ max_female_dict' = UnknownDict
            /\ prop' = <<>>
            /\ prop_df' = EmptyPropDf(nobel)
       ELSE /\ prop' = Prop(nobel)
            /\ max_female_dict' =
                   IF DOMAIN prop' = {} THEN UnknownDict
                   ELSE [decade   |-> IdxMaxPair(prop')[1],
                         category |-> IdxMaxPair(prop')[2]]
            /\ prop_df' = PropDf(prop')
    /\ assigned' = assigned \cup {"max_female_dict"}
    /\ charts' = charts \cup {"female_proportion_heatmap.png"}
    /\ pc' = "question4"
    /\ UNCHANGED <<raw, nobel, error, missing, top_gender, top_country,
                   usa_winners, max_decade_usa, usa_ratio, first_woman_name,
                   first_woman_category, repeat_list, repeat_report>>

\* lines 164-172
Question4 ==
    /\ pc = "question4"
    /\ IF female_winners(nobel) # {}
       THEN \E first \in FirstRows(nobel) :
                /\ first_woman_name' = nobel.col["full_name"][first]
                /\ first_woman_category' = nobel.col["category"][first]
       ELSE /\ first_woman_name' = Unknown
            /\ first_woman_category' = Unknown
    /\ assigned' = assigned \cup {"first_woman_name", "first_woman_category"}
    /\ pc' = "question5"
    /\ UNCHANGED <<raw, nobel, error, missing, top_gender, top_country,
                   usa_winners, max_decade_usa, usa_ratio, max_female_dict, prop, prop_df,
                   repeat_list, repeat_report, charts>>

\* lines 174-183
Question5 ==
    /\ pc = "question5"
    /\ repeat_list' \in RepeatLists(nobel)
    /\ repeat_report' = RepeatReport(nobel, repeat_list')
    /\ assigned' = assigned \cup {"repeat_list"}
    /\ IF Raising(nobel, repeat_list') # {}
       THEN /\ error' = [type |-> "TypeError", line |-> 183]
            /\ pc' = "aborted"
       ELSE /\ pc' = "summary"
            /\ UNCHANGED error
    /\ UNCHANGED <<raw, nobel, missing, top_gender, top_country,
                   usa_winners, max_decade_usa, usa_ratio, max_female_dict, prop, prop_df,
                   first_woman_name, first_woman_category, charts>>

\* lines 185-198
FinalSummary ==
    /\ pc = "summary"
    /\ pc' = "done"
    /\ UNCHANGED <<raw, nobel, error, missing, assigned, answers, charts>>

Next ==
    \/ MapColumnsStep
    \/ GenderStep
    \/ NameStep
    \/ CheckStep
    \/ PreprocessStep
    \/ Question1
    \/ Question2
    \/ Question3
    \/ Question4
    \/ Question5
    \/ FinalSummary

Spec == Init /\ [][Next]_vars
SpecFemale == InitFemale /\ [][Next]_vars
SpecUsa == InitUsa /\ [][Next]_vars
SpecRepeat == InitRepeat /\ [][Next]_vars
SpecColumns == InitColumns /\ [][Next]_vars

-----------------------------------------------------------------------------
(* Vocabulary of the properties.                                           *)

Range(q) == {q[i] : i \in 1..Len(q)}

\* lines 54-63 have run to their end
Normalized ==
    \/ pc \in {"check", "preprocess", "question1", "question2", "question3",
                "question4", "question5", "summary", "done"}
    \/ pc = "aborted" /\ error.line >= 69

\* the essential-column check has let the run through
PassedValidation ==
    \/ pc \in {"preprocess", "question1", "question2", "question3",
                "question4", "question5", "summary", "done"}
    \/ pc = "aborted" /\ error.line > 69

Cell(c, i) == nobel.col[c][i]

\* the four substrings, taken literally
UsaLiterals ==
    << <<"U","n","i","t","e","d"," ","S","t","a","t","e","s">>,
       <<"U","S","A">>,
       <<"A","m","e","r","i","c","a">>,
       <<"U",".","S",".","A",".">> >>

\* s contains the string lit, compared case-insensitively
ContainsLiteral(s, lit) ==
    \E i \in 1..Len(s) :
        /\ i + Len(lit) - 1 <= Len(s)
        /\ \A k \in 1..Len(lit) : LowerChar(s[i + k - 1]) = LowerChar(lit[k])

\* the records whose birth_country contains one of the four substrings
LiteralUsaRows ==
    {i \in Rows(nobel) :
        /\ Cell("birth_country", i) # NaN
        /\ \E a \in 1..Len(UsaLiterals) :
               ContainsLiteral(Cell("birth_country", i), UsaLiterals[a])}

\* the decades present in the dataset
DecadesPresent == {Cell("decade", i) : i \in Rows(nobel)} \ {NaNYear}

InDecade(d) == {i \in Rows(nobel) : Cell("decade", i) = d}

\* the (decade, category) pairs that can be formed from the dataset
Pairs == DecadesPresent \X ({Cell("category", i) : i \in Rows(nobel)} \ {NaN})

InPair(k) == {i \in Rows(nobel) : Cell("decade", i) = k[1] /\ Cell("category", i) = k[2]}

Females == {i \in Rows(nobel) : Cell("sex", i) = female}

\* the quotient q is the number a / b
IsQuotient(q, a, b) == q[2] > 0 /\ q[1] * b = a * q[2]

-----------------------------------------------------------------------------
(* C1: when an essential field is entirely null after column mapping, the  *)
(* run aborts with the validation error, the error names the field, and no *)
(* answer or chart has been produced.                                      *)
C1_EntirelyNullAborts ==
    \A f \in Essential :
        (pc \notin {"map_columns", "gender", "name", "check"}
            /\ AllNa(map_columns(raw), f))
        => /\ pc = "aborted"
           /\ error.type = "ValueError"
           /\ f \in Range(missing)
           /\ assigned = {}
           /\ charts = {}

(* C2: when the aggregation steps start, every record has a non-null value *)
(* for each of the five essential fields.                                  *)
C2_EveryRecordNonNull ==
    pc = "question1" =>
        \A f \in Essential : \A i \in Rows(nobel) : ~isna(f, Cell(f, i))

(* C3: a record is among the USA-born records exactly when its             *)
(* birth_country contains, case-insensitively, one of the four literal     *)
(* substrings.                                                             *)
C3_UsaBornIffLiteral ==
    "max_decade_usa" \in assigned => usa_winners = LiteralUsaRows

(* C4: with a USA-born record, the ratio series has an entry for every     *)
(* decade present, each the number of USA-born records of the decade over  *)
(* the number of its records and within [0, 1], zero where no record is    *)
(* USA-born, and max_decade_usa holds a maximum of the series; with none,  *)
(* max_decade_usa is the sentinel and the USA chart is not written.        *)
C4_UsaRatio ==
    "max_decade_usa" \in assigned =>
        IF LiteralUsaRows # {}
        THEN /\ DOMAIN usa_ratio = DecadesPresent
             /\ \A d \in DecadesPresent :
                    /\ IsQuotient(usa_ratio[d],
                                  Cardinality(LiteralUsaRows \cap InDecade(d)),
                                  Cardinality(InDecade(d)))
                    /\ 0 <= usa_ratio[d][1] /\ usa_ratio[d][1] <= usa_ratio[d][2]
             /\ Len(max_decade_usa) = 1
             /\ max_decade_usa[1] \in DecadesPresent
             /\ \A d \in DecadesPresent :
                    ~RatioLess(usa_ratio[max_decade_usa[1]], usa_ratio[d])
        ELSE /\ max_decade_usa = <<>>
             /\ "usa_ratio_by_decade.png" \notin charts

(* C5 as stated: with a female record, the female-proportion matrix has no *)
(* cell for a (decade, category) pair without records, and the cell of a   *)
(* pair with records is its female count over its count.                   *)
C5_MatrixExcludesEmptyPairs ==
    ("max_female_dict" \in assigned /\ Females # {}) =>
        /\ \A k \in DOMAIN prop_df.data : InPair(k) # {}
        /\ \A k \in Pairs :
               InPair(k) # {} =>
                  /\ k \in DOMAIN prop_df.data
                  /\ IsQuotient(prop_df.data[k], Cardinality(Females \cap InPair(k)),
                                Cardinality(InPair(k)))

(* C5 amended: with a female record, the series prop has exactly the pairs *)
(* with records, each with its female count over its count; the matrix     *)
(* prop_df has a cell for every decade and every category of those pairs,  *)
(* equal to prop where the pair has records and 0 where it has none.       *)
C5_SeriesExcludesMatrixZeroFills ==
    ("max_female_dict" \in assigned /\ Females # {}) =>
        /\ DOMAIN prop = {k \in Pairs : InPair(k) # {}}
        /\ \A k \in DOMAIN prop :
               IsQuotient(prop[k], Cardinality(Females \cap InPair(k)),
                          Cardinality(InPair(k)))
        /\ DOMAIN prop_df.data =
               {k[1] : k \in DOMAIN prop} \X {k[2] : k \in DOMAIN prop}
        /\ \A k \in DOMAIN prop_df.data :
               IF InPair(k) # {}
               THEN IsQuotient(prop_df.data[k], Cardinality(Females \cap InPair(k)),
                               Cardinality(InPair(k)))
               ELSE IsQuotient(prop_df.data[k], 0, 1)

\* a pair without records sits in the matrix beside a pair whose records
\* are partly female
C5_Witness ==
    /\ "max_female_dict" \in assigned
    /\ Females # {}
    /\ \E k \in DOMAIN prop_df.data : InPair(k) = {}
    /\ \E k \in DOMAIN prop : 0 < prop[k][1] /\ prop[k][1] < prop[k][2]

\* the number of records named v
Wins(v) == Cardinality({i \in Rows(nobel) : Cell("full_name", i) = v})

\* the first record of name v with category c
FirstWith(v, c) ==
    CHOOSE i \in Rows(nobel) :
        /\ Cell("full_name", i) = v /\ Cell("category", i) = c
        /\ \A j \in 1..(i - 1) : ~(Cell("full_name", j) = v /\ Cell("category", j) = c)

(* C6: repeat_list holds exactly the names of more than one record, by     *)
(* descending count; each reported line gives the name's number of         *)
(* records, its distinct categories in order of first occurrence and all   *)
(* its years in ascending order.                                           *)
C6_RepeatWinners ==
    "repeat_list" \in assigned =>
        /\ Range(repeat_list) =
              {v \in {Cell("full_name", i) : i \in Rows(nobel)} \ {NaN} : Wins(v) > 1}
        /\ \A i, j \in 1..Len(repeat_list) :
              i < j => /\ repeat_list[i] # repeat_list[j]
                       /\ Wins(repeat_list[i]) >= Wins(repeat_list[j])
        /\ \A k \in 1..Len(repeat_report) :
              LET line == repeat_report[k]
                  own  == {i \in Rows(nobel) : Cell("full_name", i) = line.name}
              IN  /\ line.name = repeat_list[k]
                  /\ line.wins = Cardinality(own)
                  /\ Range(line.cats) = {Cell("category", i) : i \in own}
                  /\ \A a, b \in 1..Len(line.cats) :
                        a < b => FirstWith(line.name, line.cats[a])
                                   < FirstWith(line.name, line.cats[b])
                  /\ Len(line.years) = Cardinality(own)
                  /\ \A y \in Range(line.years) :
                        Cardinality({a \in 1..Len(line.years) : line.years[a] = y})
                          = Cardinality({i \in own : Cell("year", i) = y})
                  /\ \A a, b \in 1..Len(line.years) :
                        (a < b /\ line.years[a] # NaNYear /\ line.years[b] # NaNYear)
                          => line.years[a] <= line.years[b]

(* C7: an input that passes validation and has no female record does not   *)
(* raise, reports "Unknown" as the first woman's name and category, and    *)
(* gets a matrix of zeros with one row per unique decade and one column    *)
(* per unique category.                                                    *)
C7_NoFemaleRecords ==
    (PassedValidation /\ Females = {}) =>
        /\ error = NoError
        /\ "first_woman_name" \in assigned =>
              first_woman_name = Unknown /\ first_woman_category = Unknown
        /\ "max_female_dict" \in assigned =>
              /\ Range(prop_df.index) = {Cell("decade", i) : i \in Rows(nobel)}
              /\ Len(prop_df.index) = Cardinality(Range(prop_df.index))
              /\ Range(prop_df.columns) = {Cell("category", i) : i \in Rows(nobel)}
              /\ Len(prop_df.columns) = Cardinality(Range(prop_df.columns))
              /\ DOMAIN prop_df.data = Range(prop_df.index) \X Range(prop_df.columns)
              /\ \A k \in DOMAIN prop_df.data : IsQuotient(prop_df.data[k], 0, 1)

(* C8: after the essential-column check has let the run through, no step   *)
(* raises and the final summary is reached with all seven answers          *)
(* assigned; the check is the only step that aborts a run.                 *)
C8_OnlyValidationAborts ==
    /\ PassedValidation => error = NoError
    /\ pc \in {"summary", "done"} => Answers \subseteq assigned
    /\ pc = "aborted" => error.type = "ValueError"

\* a direct variant of full_name: one that is not half of a name
DirectVariants == {"full_name", "name", "laureate_name", "Full Name"}

\* first + ' ' + last, a missing half taken as '', then stripped
Synthesized(first, last) ==
    strip((IF first = NaN THEN <<>> ELSE first) \o <<" ">>
            \o (IF last = NaN THEN <<>> ELSE last))

(* C9 as stated: full_name is built from the name halves only when no      *)
(* direct variant populated it; the values a direct variant holds are      *)
(* kept.                                                                   *)
C9_DirectVariantKept ==
    Normalized =>
        \A i \in Rows(nobel) :
            IF DirectVariants \cap Columns(raw) # {}
            THEN map_columns(raw).col["full_name"][i] # NaN =>
                   Cell("full_name", i) = strip(map_columns(raw).col["full_name"][i])
            ELSE IF {"givenName", "familyName"} \subseteq Columns(raw)
            THEN Cell("full_name", i)
                   = Synthesized(raw.col["givenName"][i], raw.col["familyName"][i])
            ELSE IF {"firstname", "surname"} \subseteq Columns(raw)
            THEN Cell("full_name", i)
                   = Synthesized(raw.col["firstname"][i], raw.col["surname"][i])
            ELSE Cell("full_name", i) = strip(map_columns(raw).col["full_name"][i])

(* C9 amended: full_name is built from givenName and familyName whenever   *)
(* both columns exist, else from firstname and surname whenever both       *)
(* exist, whether or not a direct variant populated it; only otherwise are *)
(* the mapped values kept.  In every case the value is stripped.           *)
C9_HalvesOverwrite ==
    Normalized =>
        \A i \in Rows(nobel) :
            IF {"givenName", "familyName"} \subseteq Columns(raw)
            THEN Cell("full_name", i)
                   = Synthesized(raw.col["givenName"][i], raw.col["familyName"][i])
            ELSE IF {"firstname", "surname"} \subseteq Columns(raw)
            THEN Cell("full_name", i)
                   = Synthesized(raw.col["firstname"][i], raw.col["surname"][i])
            ELSE Cell("full_name", i) = strip(map_columns(raw).col["full_name"][i])

\* a direct variant holds a name and the halves have replaced it, one half
\* missing and the other stripped
C9_Witness ==
    /\ Normalized
    /\ {"name", "givenName", "familyName"} \subseteq Columns(raw)
    /\ \E i \in Rows(nobel) :
          /\ raw.col["name"][i] = <<"A">>
          /\ raw.col["givenName"][i] = NaN
          /\ raw.col["familyName"][i] = <<"C", " ">>
          /\ Cell("full_name", i) = <<"C">>

\* no female record has a year before that of record i
EarliestFemale(i) ==
    /\ i \in Females
    /\ \A j \in Females :
          Cell("year", j) # NaNYear =>
              Cell("year", i) # NaNYear /\ Cell("year", i) <= Cell("year", j)

(* C10 as stated: with a female record, the first woman is the female      *)
(* record of minimum year that comes first in the dataset.                 *)
C10_FirstInDatasetOrder ==
    ("first_woman_name" \in assigned /\ Females # {}) =>
        LET first == CHOOSE i \in Rows(nobel) :
                        EarliestFemale(i) /\ \A j \in 1..(i - 1) : ~EarliestFemale(j)
        IN  /\ first_woman_name = Cell("full_name", first)
            /\ first_woman_category = Cell("category", first)

(* C10 amended: with a female record, the first woman is a female record   *)
(* of minimum year, any one of those that share it.                        *)
C10_SomeEarliestFemale ==
    ("first_woman_name" \in assigned /\ Females # {}) =>
        \E i \in Rows(nobel) :
            /\ EarliestFemale(i)
            /\ first_woman_name = Cell("full_name", i)
            /\ first_woman_category = Cell("category", i)

\* two women share the minimum year, a third record is earlier but not a
\* woman's, and the first woman is the later of the two
C10_Witness ==
    /\ "first_woman_name" \in assigned
    /\ \E i, j \in Females :
          /\ i < j
          /\ Cell("year", i) = 2000 /\ Cell("year", j) = 2000
          /\ first_woman_name = Cell("full_name", j)
    /\ \E m \in Rows(nobel) \ Females : Cell("year", m) = 1990

=============================================================================
